---- MODULE Spec2Model ----
(***************************************************************************)
(* A model of functions/utils.py of Multiregional_ccRCC: the gene-set      *)
(* reader (read_gene_sets, GeneSet), the sample alignment                  *)
(* (to_common_samples), the contingency pivot (pivot_vectors, item_series) *)
(* and the linear range binning (to_linear_ranges).                        *)
(*                                                                         *)
(* Each function has its own specification (SpecGmt, SpecAlign, SpecPivot, *)
(* SpecBin): its Init draws the arguments of one call from bounded sets    *)
(* and its actions are the steps of the call.  The variables of the other  *)
(* functions stay at their idle values.                                    *)
(***************************************************************************)
EXTENDS Integers, Sequences, FiniteSets, TLC

VARIABLES
    \* read_gene_sets
    gmt_file,      \* the lines of the .gmt resource, each a sequence of characters
    g_pc,          \* "start" | "loop" | "done" | "raised" | "idle"
    handle_open,   \* whether the handle of `with open(gmt_file)` is open
    line_no,       \* number of lines the for loop has consumed
    gene_sets,     \* the dict name -> GeneSet
    g_exc,         \* the exception the call raised, "" if none
    \* to_common_samples
    df_list,       \* the argument: a sequence of series, each a sequence of <<key, value>>
    a_pc,          \* "start" | "loop" | "done" | "raised" | "idle"
    a_i,           \* the loop index of line 71
    cs,            \* the set of common samples
    warned,        \* whether warnings.warn('No common samples!') was called
    a_out,         \* the returned list
    \* pivot_vectors
    vec1, vec2,    \* the arguments: [name, data], data a function key -> value
    p_pc,          \* "start" | "frame" | "done" | "raised" | "idle"
    sub_df,        \* the frame: column label -> (key -> value)
    p_out,         \* the returned table: <<row, column>> -> count
    \* to_linear_ranges
    data,          \* the argument: the values of a series with index 1..n
    ps,            \* the argument: a sequence of cut points, in units of 1/Den
    b_pc,          \* "start" | "loop" | "done" | "idle"
    tr,            \* the lower cut of the current interval
    cuts,          \* the cuts the for loop of line 123 has not visited yet
    ann,           \* the list of labelled series, each [label, index]
    b_out          \* the returned series: a sequence of rows <<key, label>>

gvars == <<gmt_file, g_pc, handle_open, line_no, gene_sets, g_exc>>
avars == <<df_list, a_pc, a_i, cs, warned, a_out>>
pvars == <<vec1, vec2, p_pc, sub_df, p_out>>
bvars == <<data, ps, b_pc, tr, cuts, ann, b_out>>
vars  == <<gvars, avars, pvars, bvars>>

(***************************************************************************)
(* General helpers.                                                        *)
(***************************************************************************)
Range(s) == {s[i] : i \in DOMAIN s}

\* The empty dict / empty function.
EmptyMap == [x \in {} |-> x]

\* All orders in which the elements of a finite set can be listed, each once:
\* what list(S) can return for a Python set S.
ListsOfSet(S) == {s \in [1..Cardinality(S) -> S] : Range(s) = S}

\* All sequences over S of length lo..hi.
SeqsUpTo(S, lo, hi) == UNION {[1..n -> S] : n \in lo..hi}

(***************************************************************************)
(* read_gene_sets: characters, str.strip and str.split.                    *)
(***************************************************************************)
TAB == "\t"
SP  == " "

\* str.strip() with no argument removes leading and trailing whitespace, the
\* tab included.
IsSpace(c) == c \in {SP, TAB, "\n"}

RECURSIVE LStrip(_)
LStrip(s) == IF s # <<>> /\ IsSpace(Head(s)) THEN LStrip(Tail(s)) ELSE s

RECURSIVE RStrip(_)
RStrip(s) ==
    IF s # <<>> /\ IsSpace(s[Len(s)]) THEN RStrip(SubSeq(s, 1, Len(s) - 1)) ELSE s

Strip(s) == RStrip(LStrip(s))

\* s.split('\t'): the fields between the tabs, empty ones kept; never empty.
RECURSIVE SplitTab(_)
SplitTab(s) ==
    IF s = <<>> THEN << <<>> >>
    ELSE LET rest == SplitTab(Tail(s))
         IN  IF Head(s) = TAB
             THEN << <<>> >> \o rest
             ELSE << <<Head(s)>> \o Head(rest) >> \o Tail(rest)

\* '\t'.join(fields), used to build the input lines.
RECURSIVE JoinTab(_)
JoinTab(fields) ==
    IF Len(fields) = 0 THEN <<>>
    ELSE IF Len(fields) = 1 THEN fields[1]
    ELSE fields[1] \o <<TAB>> \o JoinTab(Tail(fields))

\* GeneSet.__init__(name, descr, genes): genes is any iterable, given here as
\* the sequence its iteration yields.
GeneSet(name, descr, genes) ==
    [name |-> name, descr |-> descr,
     genes |-> Range(genes), genes_ordered |-> genes]

\* items = line.strip().split('\t')
Items(line) == SplitTab(Strip(line))

\* genes = set([gene.strip() for gene in items[2:]])
GenesOf(items) == {Strip(items[j]) : j \in 3..Len(items)}

\* gene_sets[name] = value
FirstWins(d, name, value) ==
    [n \in DOMAIN d \cup {name} |-> IF n \in DOMAIN d THEN d[n] ELSE value]

SetItem(d, name, value) ==
    [n \in DOMAIN d \cup {name} |-> IF n = name THEN value ELSE d[n]]

\* Leaving the `with open(...) as handle` block, normally or by an exception:
\* the state of the handle afterwards.
LeaveOpen(open) == open

ExitWith(open) == FALSE

\* Bounds of the gene-set inputs.
MaxFields == 5       \* fields of the line of a one-line resource
MaxFieldsMulti == 3  \* fields of a line of a resource of several lines
MaxLines == 2        \* lines of a resource

RichTok == {<<>>, <<"A">>, <<"B">>, <<SP, "A">>}
LeanTok == {<<"A">>, <<"B", SP>>}
RichLines == {JoinTab(f) : f \in SeqsUpTo(RichTok, 1, MaxFields)}
LeanLines == {JoinTab(f) : f \in SeqsUpTo(LeanTok, 1, MaxFieldsMulti)}
GmtFiles == SeqsUpTo(RichLines, 1, 1) \cup SeqsUpTo(LeanLines, 0, MaxLines)

GmtIdle ==
    /\ gmt_file = <<>> /\ g_pc = "idle" /\ handle_open = FALSE
    /\ line_no = 0 /\ gene_sets = EmptyMap /\ g_exc = ""

InitGmt ==
    /\ gmt_file \in GmtFiles
    /\ g_pc = "start"
    /\ handle_open = FALSE
    /\ line_no = 0
    /\ gene_sets = EmptyMap
    /\ g_exc = ""

\* Lines 25-26: gene_sets = {}; with open(gmt_file) as handle
Open ==
    /\ g_pc = "start"
    /\ g_pc' = "loop"
    /\ handle_open' = TRUE
    /\ gene_sets' = EmptyMap
    /\ UNCHANGED <<gmt_file, line_no, g_exc>>
    /\ UNCHANGED <<avars, pvars, bvars>>

\* Lines 27-32, one iteration of the loop that runs through: the set built on
\* line 31 is iterated by GeneSet.__init__ in an order of the set's own.
ReadLine ==
    /\ g_pc = "loop"
    /\ line_no < Len(gmt_file)
    /\ LET items == Items(gmt_file[line_no + 1])
       IN  /\ Len(items) >= 2
           /\ LET name == Strip(items[1])
                  description == Strip(items[2])
                  genes == GenesOf(items)
              IN  \E order \in ListsOfSet(genes) :
                      gene_sets' = SetItem(gene_sets, name,
                                           GeneSet(name, description, order))
    /\ line_no' = line_no + 1
    /\ UNCHANGED <<gmt_file, g_pc, handle_open, g_exc>>
    /\ UNCHANGED <<avars, pvars, bvars>>

\* Line 30 on a line of one field: items[1] raises IndexError, which leaves the
\* with block and the function.
ReadLineRaises ==
    /\ g_pc = "loop"
    /\ line_no < Len(gmt_file)
    /\ Len(Items(gmt_file[line_no + 1])) < 2
    /\ g_exc' = "IndexError"
    /\ g_pc' = "raised"
    /\ handle_open' = ExitWith(handle_open)
    /\ line_no' = line_no + 1
    /\ UNCHANGED <<gmt_file, gene_sets>>
    /\ UNCHANGED <<avars, pvars, bvars>>

\* Lines 27 and 34: the handle is exhausted, the with block ends, return.
Return ==
    /\ g_pc = "loop"
    /\ line_no = Len(gmt_file)
    /\ g_pc' = "done"
    /\ handle_open' = ExitWith(handle_open)
    /\ UNCHANGED <<gmt_file, line_no, gene_sets, g_exc>>
    /\ UNCHANGED <<avars, pvars, bvars>>

(***************************************************************************)
(* to_common_samples.  A series is the sequence of its rows <<key, value>>, *)
(* in index order; an index may hold a key more than once.                 *)
(***************************************************************************)
\* df.index
Index(s) == [r \in DOMAIN s |-> s[r][1]]

\* set(df.index)
KeySet(s) == {s[r][1] : r \in DOMAIN s}

\* The rows of s labelled k, in index order.
RowsAt(s, k) == SelectSeq(s, LAMBDA row : row[1] = k)

\* df.loc[keys] for a list of labels that all occur in the index: for each
\* label of the list in turn, the rows it labels.
RECURSIVE Loc(_, _)
Loc(s, keys) ==
    IF keys = <<>> THEN <<>> ELSE RowsAt(s, Head(keys)) \o Loc(s, Tail(keys))

\* Line 72: cs.intersection(df_list[i].index)
KeepFirst(common, index) == common

Intersection(common, index) == common \cap Range(index)

\* Line 74: len(cs) < 1
FewerThanTwo(common) == Cardinality(common) < 2

NoCommon(common) == Cardinality(common) < 1

\* Line 76: [df_list[i].loc[list(cs)] for i in range(len(df_list))]; every
\* list(cs) iterates the same unmodified set, so all of them yield one order.
FilterAll(dfs, order) ==
    [i \in DOMAIN dfs |-> SelectSeq(dfs[i], LAMBDA row : row[1] \in Range(order))]

RestrictAll(dfs, order) == [i \in DOMAIN dfs |-> Loc(dfs[i], order)]

\* Bounds of the alignment inputs.
MaxSeries == 2   \* series in df_list
MaxRows == 2     \* rows of a series

AKeys == {"s1", "s2"}
AVals == {"u", "v"}
ASeries == SeqsUpTo(AKeys \X AVals, 0, MaxRows)

AlignIdle ==
    /\ df_list = <<>> /\ a_pc = "idle" /\ a_i = 0 /\ cs = {}
    /\ warned = FALSE /\ a_out = <<>>

InitAlign ==
    /\ df_list \in SeqsUpTo(ASeries, 0, MaxSeries)
    /\ a_pc = "start"
    /\ a_i = 0
    /\ cs = {}
    /\ warned = FALSE
    /\ a_out = <<>>

\* Line 70: cs = set(df_list[0].index)
FirstIndex ==
    /\ a_pc = "start"
    /\ Len(df_list) > 0
    /\ cs' = KeySet(df_list[1])
    /\ a_i' = 1
    /\ a_pc' = "loop"
    /\ UNCHANGED <<df_list, warned, a_out>>
    /\ UNCHANGED <<gvars, pvars, bvars>>

\* Line 70 on an empty list: df_list[0] raises IndexError.
FirstIndexRaises ==
    /\ a_pc = "start"
    /\ Len(df_list) = 0
    /\ a_pc' = "raised"
    /\ UNCHANGED <<df_list, a_i, cs, warned, a_out>>
    /\ UNCHANGED <<gvars, pvars, bvars>>

\* Lines 71-72, one iteration.
IntersectNext ==
    /\ a_pc = "loop"
    /\ a_i < Len(df_list)
    /\ cs' = Intersection(cs, Index(df_list[a_i + 1]))
    /\ a_i' = a_i + 1
    /\ UNCHANGED <<df_list, a_pc, warned, a_out>>
    /\ UNCHANGED <<gvars, pvars, bvars>>

\* Lines 74-76: the warning and the returned list.
WarnAndRestrict ==
    /\ a_pc = "loop"
    /\ a_i = Len(df_list)
    /\ warned' = NoCommon(cs)
    /\ \E order \in ListsOfSet(cs) : a_out' = RestrictAll(df_list, order)
    /\ a_pc' = "done"
    /\ UNCHANGED <<df_list, a_i, cs>>
    /\ UNCHANGED <<gvars, pvars, bvars>>

(***************************************************************************)
(* pivot_vectors and item_series.  A series is [name, data]: name is <<>>  *)
(* for None or <<label>>, data maps each key of the index to a value.  The *)
(* two arguments share one index with unique keys.  A frame maps a column  *)
(* label to a column, itself a map from key to value.                      *)
(***************************************************************************)
NoName == <<>>

\* Lines 89-91 and 93-95: str(vec.name), or the default label for None.
AxisLabel(vec, default) == IF vec.name = NoName THEN default ELSE vec.name[1]

\* Line 97: pd.DataFrame({name1: vec1, name2: vec2}).  The argument is a dict
\* literal: with name1 = name2 the second value replaces the first.
FrameOf(name1, v1, name2, v2) ==
    [c \in {name1, name2} |-> IF c = name2 THEN v2.data ELSE v1.data]

\* Lines 56-58: item_series(item, indexed) for an indexed with an index.
ItemSeries(item, index) == [k \in index |-> item]

\* The index of a frame: the keys of its columns.
FrameIndex(frame) == UNION {DOMAIN frame[c] : c \in DOMAIN frame}

\* Line 100: sub_df.assign(N=...) adds column N, or replaces it.
Assign(frame, label, column) ==
    [c \in DOMAIN frame \cup {label} |-> IF c = label THEN column ELSE frame[c]]

RECURSIVE SumOver(_, _)
SumOver(f, S) ==
    IF S = {} THEN 0
    ELSE LET k == CHOOSE x \in S : TRUE IN f[k] + SumOver(f, S \ {k})

\* Line 102-103: pd.pivot_table(data, columns, index, values, aggfunc=sum): one
\* row per value of the index column, one column per value of the columns
\* column, each cell <<the sum of `values` over the keys of that pair>>, or NaN
\* where the pair has no key.
NaN == <<>>

PivotTable(frame, columns, index, values) ==
    LET keys == FrameIndex(frame)
        rows == {frame[index][k] : k \in keys}
        cols == {frame[columns][k] : k \in keys}
        Of(r, c) == {k \in keys : frame[index][k] = r /\ frame[columns][k] = c}
    IN  [rc \in rows \X cols |->
            IF Of(rc[1], rc[2]) = {} THEN NaN
            ELSE <<SumOver(frame[values], Of(rc[1], rc[2]))>>]

\* Line 103: .fillna(0).astype(int)
FillNa(table) ==
    [rc \in DOMAIN table |-> IF table[rc] = NaN THEN 0 ELSE table[rc][1]]

PKeys == {"k1", "k2", "k3"}
PVals == {"x", "y"}
PNames == {NoName, <<"g">>, <<"h">>}
PIndexes == SUBSET PKeys \ {{}}

PivotIdle ==
    /\ vec1 = <<>> /\ vec2 = <<>> /\ p_pc = "idle"
    /\ sub_df = EmptyMap /\ p_out = EmptyMap

InitPivot ==
    /\ \E index \in PIndexes :
          /\ vec1 \in [name : PNames, data : [index -> PVals]]
          /\ vec2 \in [name : PNames, data : [index -> PVals]]
    /\ p_pc = "start"
    /\ sub_df = EmptyMap
    /\ p_out = EmptyMap

\* Lines 89-100: the labels, the frame and its column N.
MakeFrame ==
    /\ p_pc = "start"
    /\ LET name1 == AxisLabel(vec1, "V1")
           name2 == AxisLabel(vec2, "V2")
           frame == FrameOf(name1, vec1, name2, vec2)
       IN  sub_df' = Assign(frame, "N", ItemSeries(1, FrameIndex(frame)))
    /\ p_pc' = "frame"
    /\ UNCHANGED <<vec1, vec2, p_out>>
    /\ UNCHANGED <<gvars, avars, bvars>>

\* Lines 102-103: the pivot of the frame.
Pivot ==
    /\ p_pc = "frame"
    /\ p_out' = FillNa(PivotTable(sub_df, AxisLabel(vec1, "V1"),
                                  AxisLabel(vec2, "V2"), "N"))
    /\ p_pc' = "done"
    /\ UNCHANGED <<vec1, vec2, sub_df>>
    /\ UNCHANGED <<gvars, avars, bvars>>

\* Lines 102-103 when both labels name one column: grouping twice by one
\* column is accepted by some versions of the library (the action above) and
\* refused with a ValueError by others.
PivotRaises ==
    /\ p_pc = "frame"
    /\ AxisLabel(vec1, "V1") = AxisLabel(vec2, "V2")
    /\ p_pc' = "raised"
    /\ UNCHANGED <<vec1, vec2, sub_df, p_out>>
    /\ UNCHANGED <<gvars, avars, bvars>>

(***************************************************************************)
(* to_linear_ranges.  The series holds floating-point numbers and line     *)
(* 121-129 compute with them: every sum, difference and product is rounded *)
(* to the nearest representable number, ties to even.  The model keeps the *)
(* rounding and scales the format down: a number is an integer count of    *)
(* units of 1/Den with at most MantBits significant bits (float64 has 53). *)
(* A cut point t stands for the fraction t/Den.                            *)
(***************************************************************************)
MantBits == 7   \* significant bits of a number
Den == 4        \* a cut point is a multiple of 1/Den

Abs(n) == IF n < 0 THEN -n ELSE n

RECURSIVE Pow2(_)
Pow2(n) == IF n = 0 THEN 1 ELSE 2 * Pow2(n - 1)

\* The number of bits of a natural number.
RECURSIVE BitLen(_)
BitLen(n) == IF n = 0 THEN 0 ELSE 1 + BitLen(n \div 2)

\* The representable number nearest to the exact quotient n / d, ties to even.
RoundDiv(n, d) ==
    LET mag  == Abs(n)
        drop == BitLen(mag \div d) - MantBits
        ulp  == Pow2(IF drop > 0 THEN drop ELSE 0)
        g    == d * ulp
        q    == mag \div g
        r    == mag % g
        up   == 2 * r > g \/ (2 * r = g /\ q % 2 = 1)
        m    == (IF up THEN q + 1 ELSE q) * ulp
    IN  IF n < 0 THEN -m ELSE m

\* The number stored for the value v.
Stored(v) == RoundDiv(Den * v, 1)

FAdd(a, b) == RoundDiv(a + b, 1)
FSub(a, b) == RoundDiv(a - b, 1)
\* a times the fraction t/Den
FMul(a, t) == RoundDiv(a * t, Den)

\* data.max(), data.min()
RECURSIVE SeqMax(_)
SeqMax(s) ==
    IF Len(s) = 1 THEN s[1]
    ELSE LET m == SeqMax(Tail(s)) IN IF s[1] > m THEN s[1] ELSE m

RECURSIVE SeqMin(_)
SeqMin(s) ==
    IF Len(s) = 1 THEN s[1]
    ELSE LET m == SeqMin(Tail(s)) IN IF s[1] < m THEN s[1] ELSE m

\* Line 121: data_range = data.max() - data.min()
DataRange(d) == FSub(SeqMax(d), SeqMin(d))

\* Lines 125-129: data.min() + data_range * t
Threshold(d, t) == FAdd(SeqMin(d), FMul(DataRange(d), t))

\* Line 123: np.sort(ps), ascending.
RECURSIVE Insert(_, _)
Insert(x, s) ==
    IF s = <<>> THEN <<x>>
    ELSE IF x <= Head(s) THEN <<x>> \o s
    ELSE <<Head(s)>> \o Insert(x, Tail(s))

RECURSIVE Sort(_)
Sort(s) == IF s = <<>> THEN <<>> ELSE Insert(Head(s), Sort(Tail(s)))

\* Lines 124-129: the mask of one interval.  The first interval (tr == 0) is
\* closed at both ends, every later one is open below.
ClosedBelow(d, lo, hi, v) ==
    /\ v >= Threshold(d, lo)
    /\ v <= Threshold(d, hi)

InInterval(d, lo, hi, v) ==
    IF lo = 0
    THEN v >= Threshold(d, lo) /\ v <= Threshold(d, hi)
    ELSE v > Threshold(d, lo) /\ v <= Threshold(d, hi)

\* list(data[mask].index): the keys under the mask, in index order.
RECURSIVE KeysWhere(_, _, _, _)
KeysWhere(d, lo, hi, k) ==
    IF k > Len(d) THEN <<>>
    ELSE (IF InInterval(d, lo, hi, d[k]) THEN <<k>> ELSE <<>>)
         \o KeysWhere(d, lo, hi, k + 1)

\* Line 131: how format() writes a cut: the int 0 and the int 1 without a
\* point, a float t/Den by its decimal digits.
RECURSIVE Decimals(_)
Decimals(r) ==
    IF r = 0 THEN ""
    ELSE ToString((10 * r) \div Den) \o Decimals((10 * r) % Den)

FormatCut(t) ==
    IF t = 0 THEN "0"
    ELSE IF t = Den THEN "1"
    ELSE "0." \o Decimals(t)

\* Line 131: '{}p<x<{}p'.format(tr, tr2)
Label(lo, hi) == FormatCut(lo) \o "p<x<" \o FormatCut(hi) \o "p"

\* Line 134: pd.concat(ann), as rows <<key, label>>.
RECURSIVE Concat(_)
Concat(series) ==
    IF series = <<>> THEN <<>>
    ELSE [j \in DOMAIN Head(series).index |->
             <<Head(series).index[j], Head(series).label>>]
         \o Concat(Tail(series))

\* Bounds of the binning inputs.
MaxSamples == 3   \* values of a series, the example series apart
MaxCuts == 2      \* cut points in ps

\* The values a series draws from: numbers of the example, a negative one and
\* a large one.
BVals == {Stored(v) : v \in {-1, 0, 50, 75, 100, Pow2(MantBits)}}
ExampleData == <<Stored(0), Stored(25), Stored(50), Stored(75), Stored(100)>>
BData == SeqsUpTo(BVals, 1, MaxSamples) \cup {ExampleData}
BCuts == 1..(Den - 1)

BinIdle ==
    /\ data = <<>> /\ ps = <<>> /\ b_pc = "idle" /\ tr = 0
    /\ cuts = <<>> /\ ann = <<>> /\ b_out = <<>>

InitBin ==
    /\ data \in BData
    /\ ps \in SeqsUpTo(BCuts, 0, MaxCuts)
    /\ b_pc = "start"
    /\ tr = 0
    /\ cuts = <<>>
    /\ ann = <<>>
    /\ b_out = <<>>

\* Lines 118-123: ann = [], tr = 0 and the list the loop runs over.
StartRanges ==
    /\ b_pc = "start"
    /\ ann' = <<>>
    /\ tr' = 0
    /\ cuts' = Sort(ps) \o <<Den>>
    /\ b_pc' = "loop"
    /\ UNCHANGED <<data, ps, b_out>>
    /\ UNCHANGED <<gvars, avars, pvars>>

\* Lines 123-132, one iteration with tr2 the next cut.
NextRange ==
    /\ b_pc = "loop"
    /\ cuts # <<>>
    /\ LET tr2 == Head(cuts)
           x == KeysWhere(data, tr, tr2, 1)
       IN  /\ ann' = Append(ann, [label |-> Label(tr, tr2), index |-> x])
           /\ tr' = tr2
    /\ cuts' = Tail(cuts)
    /\ UNCHANGED <<data, ps, b_pc, b_out>>
    /\ UNCHANGED <<gvars, avars, pvars>>

\* Line 134: return pd.concat(ann)
ConcatRanges ==
    /\ b_pc = "loop"
    /\ cuts = <<>>
    /\ b_out' = Concat(ann)
    /\ b_pc' = "done"
    /\ UNCHANGED <<data, ps, tr, cuts, ann>>
    /\ UNCHANGED <<gvars, avars, pvars>>

(***************************************************************************)
(* The specifications: one call of one function each.                      *)
(***************************************************************************)
InitG == InitGmt /\ AlignIdle /\ PivotIdle /\ BinIdle

NextGmt == Open \/ ReadLine \/ ReadLineRaises \/ Return

SpecGmt == InitG /\ [][NextGmt]_vars

InitA == InitAlign /\ GmtIdle /\ PivotIdle /\ BinIdle

NextAlign == FirstIndex \/ FirstIndexRaises \/ IntersectNext \/ WarnAndRestrict

SpecAlign == InitA /\ [][NextAlign]_vars

InitP == InitPivot /\ GmtIdle /\ AlignIdle /\ BinIdle

NextPivot == MakeFrame \/ Pivot \/ PivotRaises

SpecPivot == InitP /\ [][NextPivot]_vars

InitB == InitBin /\ GmtIdle /\ AlignIdle /\ PivotIdle

NextBin == StartRanges \/ NextRange \/ ConcatRanges

SpecBin == InitB /\ [][NextBin]_vars

(***************************************************************************)
(* Properties of to_common_samples (SpecAlign).                            *)
(***************************************************************************)
\* The intersection of the key sets of all series of a non-empty list.
CommonKeys(dfs) ==
    {k \in KeySet(dfs[1]) : \A i \in DOMAIN dfs : k \in KeySet(dfs[i])}

UniqueKeys(s) == \A q, r \in DOMAIN s : s[q][1] = s[r][1] => q = r

\* C1: the returned list has the length and the positions of the argument;
\* every returned series has exactly the common keys, and under each common
\* key the rows (values) the argument of the same position has under it.
C1_AlignmentCorrect ==
    a_pc = "done" =>
        /\ Len(a_out) = Len(df_list)
        /\ \A i \in DOMAIN df_list :
              /\ KeySet(a_out[i]) = CommonKeys(df_list)
              /\ \A k \in CommonKeys(df_list) :
                    RowsAt(a_out[i], k) = RowsAt(df_list[i], k)

\* Two series with different key sets and a common key: a real restriction.
C1_Witness ==
    /\ a_pc = "done"
    /\ Len(df_list) = 2
    /\ CommonKeys(df_list) # {}
    /\ KeySet(df_list[1]) # KeySet(df_list[2])
    /\ a_out[1] # <<>>

\* C5: a call on a non-empty list never raises; the warning is emitted exactly
\* when the key sets have no common key, and then the call still returns one
\* empty series per argument.
C5_EmptyIntersectionWarns ==
    /\ a_pc = "raised" => Len(df_list) = 0
    /\ a_pc # "done" => ~warned
    /\ a_pc = "done" =>
          /\ warned <=> CommonKeys(df_list) = {}
          /\ CommonKeys(df_list) = {} =>
                /\ Len(a_out) = Len(df_list)
                /\ \A i \in DOMAIN a_out : a_out[i] = <<>>

\* Two non-empty series without a common key: warned and returned.
C5_Witness ==
    /\ a_pc = "done"
    /\ warned
    /\ Len(df_list) = 2
    /\ df_list[1] # <<>>
    /\ df_list[2] # <<>>
    /\ Len(a_out) = 2

\* C10: when every argument has unique keys, all returned series list the
\* common keys in one order: position r of each of them holds the same key.
C10_SameKeyOrder ==
    (a_pc = "done" /\ \A i \in DOMAIN df_list : UniqueKeys(df_list[i])) =>
        \A i, j \in DOMAIN a_out : Index(a_out[i]) = Index(a_out[j])

\* Two series with unique keys that list two common keys in opposite orders.
C10_Witness ==
    /\ a_pc = "done"
    /\ Len(df_list) = 2
    /\ UniqueKeys(df_list[1]) /\ UniqueKeys(df_list[2])
    /\ Cardinality(CommonKeys(df_list)) = 2
    /\ Index(df_list[1]) # Index(df_list[2])
    /\ Index(a_out[1]) = Index(a_out[2])

(***************************************************************************)
(* Properties of read_gene_sets (SpecGmt).                                 *)
(***************************************************************************)
\* The tab-separated fields of a line as written in the resource.
RawFields(line) == SplitTab(line)

\* A well-formed line: a name, a description and at least one member, none of
\* them empty.
WellFormed(line) ==
    /\ Len(RawFields(line)) >= 3
    /\ \A j \in DOMAIN RawFields(line) : Strip(RawFields(line)[j]) # <<>>

RawName(line) == Strip(RawFields(line)[1])

\* The trimmed member tokens of a line, in source order.
RawMembers(line) ==
    [j \in 1..(Len(RawFields(line)) - 2) |-> Strip(RawFields(line)[j + 2])]

\* C3: a processed line of fewer than 3 tab-separated fields has failed the
\* parse: the call raised on that very line.
C3_MalformedLineRejected ==
    \A i \in 1..line_no :
        Len(RawFields(gmt_file[i])) < 3 => (g_pc = "raised" /\ line_no = i)

\* C4: for the well-formed line processed last, the GeneSet stored under its
\* name has as members the set of its trimmed member tokens and as
\* members_ordered the sequence of those tokens in source order, duplicates
\* kept.
C4_MembersOrderedKeepsSource ==
    (g_pc \in {"loop", "done"} /\ line_no >= 1 /\ WellFormed(gmt_file[line_no])) =>
        LET line == gmt_file[line_no]
            gs == gene_sets[RawName(line)]
        IN  /\ gs.genes = Range(RawMembers(line))
            /\ gs.genes_ordered = RawMembers(line)

\* C7: after a parse of well-formed lines the catalog has exactly one entry per
\* distinct name of the input, and the entry of a name is the GeneSet of the
\* last line that carries it; no error is raised.
C7_LastWriteWins ==
    (\A i \in DOMAIN gmt_file : WellFormed(gmt_file[i])) =>
        /\ g_pc # "raised"
        /\ g_pc = "done" =>
              /\ DOMAIN gene_sets = {RawName(gmt_file[i]) : i \in DOMAIN gmt_file}
              /\ \A n \in DOMAIN gene_sets :
                    LET last == CHOOSE i \in DOMAIN gmt_file :
                                    /\ RawName(gmt_file[i]) = n
                                    /\ \A j \in DOMAIN gmt_file :
                                          RawName(gmt_file[j]) = n => j <= i
                        line == gmt_file[last]
                    IN  /\ gene_sets[n].name = n
                        /\ gene_sets[n].descr = Strip(RawFields(line)[2])
                        /\ gene_sets[n].genes = Range(RawMembers(line))
                        /\ Range(gene_sets[n].genes_ordered) = Range(RawMembers(line))

\* Two well-formed lines of one name and different descriptions, parsed.
C7_Witness ==
    /\ g_pc = "done"
    /\ Len(gmt_file) = 2
    /\ WellFormed(gmt_file[1]) /\ WellFormed(gmt_file[2])
    /\ RawName(gmt_file[1]) = RawName(gmt_file[2])
    /\ Strip(RawFields(gmt_file[1])[2]) # Strip(RawFields(gmt_file[2])[2])
    /\ Cardinality(DOMAIN gene_sets) = 1

\* C8: whenever the call has returned or raised, the handle is closed.
C8_HandleReleased ==
    g_pc \in {"done", "raised"} => ~handle_open

\* A parse that stored a set and then failed on the second line.
C8_Witness ==
    /\ g_pc = "raised"
    /\ line_no = 2
    /\ DOMAIN gene_sets # {}
    /\ ~handle_open

(***************************************************************************)
(* Properties of pivot_vectors (SpecPivot).                                *)
(***************************************************************************)
\* The keys at which v2 holds r and v1 holds c.
PairKeys(r, c) ==
    {k \in DOMAIN vec1.data : vec2.data[k] = r /\ vec1.data[k] = c}

\* C6: the returned table has one row per value of v2 and one column
\* per value of v1; cell (r, c) is the number of keys with v2 = r and v1 = c,
\* 0 for a pair that never occurs, and the cells sum to the length N.
C6_PivotCounts ==
    p_pc = "done" =>
        /\ DOMAIN p_out =
              {vec2.data[k] : k \in DOMAIN vec2.data}
                  \X {vec1.data[k] : k \in DOMAIN vec1.data}
        /\ \A rc \in DOMAIN p_out : p_out[rc] = Cardinality(PairKeys(rc[1], rc[2]))
        /\ SumOver(p_out, DOMAIN p_out) = Cardinality(DOMAIN vec1.data)

\* The same, for two series whose axis labels differ; and then no call raises.
PivotCountsDistinctLabels ==
    AxisLabel(vec1, "V1") # AxisLabel(vec2, "V2") =>
        (p_pc # "raised" /\ C6_PivotCounts)

(***************************************************************************)
(* Properties of to_linear_ranges (SpecBin).                               *)
(***************************************************************************)
\* The rows of the result that carry key k.
RowsOfKey(k) == {r \in DOMAIN b_out : b_out[r][1] = k}

\* C2: every key of data is in the result exactly once.
C2_RangesPartitionIndex ==
    b_pc = "done" => \A k \in DOMAIN data : Cardinality(RowsOfKey(k)) = 1

\* No key is in the result twice.
RangesDisjoint ==
    b_pc = "done" => \A k \in DOMAIN data : Cardinality(RowsOfKey(k)) <= 1

\* c lists the cut points of p in ascending order.
AscendingCutsOf(c, p) ==
    /\ Len(c) = Len(p)
    /\ \A i, j \in DOMAIN c : i <= j => c[i] <= c[j]
    /\ \A x \in Range(p) \cup Range(c) :
          Cardinality({i \in DOMAIN c : c[i] = x})
              = Cardinality({i \in DOMAIN p : p[i] = x})

\* C9: with the cuts of ps ascending, 0 before them and 1 after them, the
\* j-th series of the result is labelled by the j-th pair of consecutive cuts
\* (lo, hi) and holds key k iff min + lo*range <= v <= min + hi*range for the
\* first pair and min + lo*range < v <= min + hi*range for a later one; on
\* the example [0, 25, 50, 75, 100] with ps = [0.5] the first three keys are
\* labelled '0p<x<0.5p' and the last two '0.5p<x<1p'.
C9_IntervalLabels ==
    b_pc = "done" =>
        /\ \A c \in [1..Len(ps) -> BCuts] :
              AscendingCutsOf(c, ps) =>
                  LET all == <<0>> \o c \o <<Den>>
                  IN  /\ Len(ann) = Len(ps) + 1
                      /\ \A j \in DOMAIN ann :
                            LET lo == Threshold(data, all[j])
                                hi == Threshold(data, all[j + 1])
                            IN  /\ ann[j].label = Label(all[j], all[j + 1])
                                /\ \A k \in DOMAIN data :
                                      k \in Range(ann[j].index) <=>
                                          IF j = 1
                                          THEN lo <= data[k] /\ data[k] <= hi
                                          ELSE lo < data[k] /\ data[k] <= hi
        /\ b_out = Concat(ann)
        /\ (data = ExampleData /\ Len(ps) = 1 /\ 2 * ps[1] = Den) =>
              b_out = << <<1, "0p<x<0.5p">>, <<2, "0p<x<0.5p">>, <<3, "0p<x<0.5p">>,
                         <<4, "0.5p<x<1p">>, <<5, "0.5p<x<1p">> >>

\* Unsorted cuts and a value on the boundary of a later interval.
C9_Witness ==
    /\ b_pc = "done"
    /\ Len(ps) = 2
    /\ ps[1] > ps[2]
    /\ \E j \in 2..Len(ann) : \E k \in DOMAIN data :
          /\ k \in Range(ann[j].index)
          /\ data[k] = Threshold(data, ps[1])

====
